---- MODULE Spec2Model ----
(***************************************************************************)
(* VMAP viewer: the manifest generator (scripts/generate-manifest.js), the *)
(* image-list utilities (utils/imageData: generateImageList,               *)
(* buildNavigationGraph), the App component with its Navigation controls,  *)
(* the FloorPlan component's marker layout and hit-testing                 *)
(* (src/components/FloorPlan.jsx), and the classification / layout /       *)
(* export pipeline of ai-tools.                                            *)
(*                                                                         *)
(* JavaScript arrays are 0-based, TLA+ sequences 1-based: the element at   *)
(* JS index i is element i + 1 of the sequence; every `index` field and    *)
(* every index handed to a handler keeps its 0-based JS value.             *)
(* A JS string is modelled as the sequence of its characters.              *)
(***************************************************************************)
EXTENDS Integers, Sequences, FiniteSets, TLC

VARIABLES
    dir,                \* names of the files in public/images
    manifest,           \* public/image-manifest.json, NoManifest before the script ran
    imageList,          \* value the promise of generateImageList resolved to
    listSource,         \* "none" | "manifest" | "fallback" | "rejected": how generateImageList settled
    graph,              \* result of buildNavigationGraph on imageList
    images,             \* App state `images` (FloorPlan prop `images`)
    currentImageIndex,  \* App state `currentImageIndex`
    hoveredIndex,       \* FloorPlan state `hoveredIndex` (Null = null)
    drawn,              \* markers the FloorPlan draw effect last put on the canvas
    fetchOutcome,       \* what the fetch of generateImageList did: "none" before the call,
                        \* "pending" while in flight
    loading,            \* App state `loading`
    showFloorPlan,      \* App state `showFloorPlan`
    showTimeline,       \* Navigation state `showTimeline`
    pipeline,           \* the run of the classification / layout / export pipeline
    viewer,             \* PanoramaViewer: its state imageLoaded, imageError, the request
                        \* of its <img>, and where it is between a commit and its effect
    closure             \* the render of App whose handlers are attached: the
                        \* currentImageIndex they closed over, and the events they got

dataVars == <<dir, manifest, imageList, listSource, graph, fetchOutcome>>
viewVars == <<images, currentImageIndex, hoveredIndex, drawn>>
appVars == <<loading, showFloorPlan, showTimeline>>
renderVars == <<viewer, closure>>
vars == <<dir, manifest, imageList, listSource, graph,
          images, currentImageIndex, hoveredIndex, drawn,
          fetchOutcome, loading, showFloorPlan, showTimeline, pipeline,
          viewer, closure>>

\* null of hoveredIndex: no 0-based index is negative
Null == -1
\* the manifest file: no file, or a file holding the manifest m
NoManifest == << >>
ManifestFile(m) == << m >>
\* no pipeline run
NoPipeline == << >>

\* PanoramaViewer after its first render and effect: useState(false) twice;
\* requested: the <img> is in the document and its load has not ended;
\* eventFor: index of the image whose load or error event set the flags,
\* Null after a reset; lastFailed: index of the image that failed last;
\* phase: "committed" between a commit with a new image and its effect
ViewerMounted(hasImage) ==
    [ imageLoaded |-> FALSE,
      imageError  |-> FALSE,
      requested   |-> hasImage,
      eventFor    |-> Null,
      lastFailed  |-> Null,
      phase       |-> "settled" ]

\* the first render of App: useState(0); start and forwards count the
\* 'forward' calls the handlers got in a row, and where the first found
\* the index
FirstRender == [ currentImageIndex |-> 0, start |-> 0, forwards |-> 0 ]

\* a render of App with the index i: its handlers close over i
Rendered(i) == [ currentImageIndex |-> i, start |-> i, forwards |-> 0 ]
\* the value undefined of a property that is read but absent: ids and
\* sequence numbers are never negative
Undefined == -2

(***************************************************************************)
(* Bounds of the model.                                                    *)
(***************************************************************************)
\* largest number of images handed to the FloorPlan component
MaxTotal == 120
\* largest number of files in the images directory
MaxFiles == 3
\* largest number of images of the App the navigation controls drive
MaxNav == 12
\* largest number of images in a batch run
MaxBatch == 3

(***************************************************************************)
(* Characters.  CharOrder lists the characters that occur in file names in *)
(* increasing UTF-16 code unit order; Array.prototype.sort() without a     *)
(* comparator orders strings by code units, so only the order matters.     *)
(***************************************************************************)
CharOrder ==
    << ".", "0", "1", "2", "3", "4", "5", "6", "7", "8", "9",
       "E", "G", "I", "J", "M", "N", "P", "_",
       "c", "e", "f", "g", "i", "j", "m", "n", "o", "p", "r", "s", "t", "v", "x", "y" >>

CharCode(c) == CHOOSE k \in 1..Len(CharOrder) : CharOrder[k] = c

DigitChars == << "0", "1", "2", "3", "4", "5", "6", "7", "8", "9" >>

IsDigit(c) == \E k \in 1..10 : DigitChars[k] = c

DigitVal(c) == (CHOOSE k \in 1..10 : DigitChars[k] = c) - 1

\* case folding used by the /i flag, on the letters the patterns contain
ToUpper(c) ==
    CASE c = "i" -> "I" [] c = "m" -> "M" [] c = "g" -> "G" [] c = "j" -> "J"
      [] c = "p" -> "P" [] c = "e" -> "E" [] c = "n" -> "N" [] OTHER -> c

\* a < b for strings, by code units (the default comparison of sort())
StrLess(a, b) ==
    \/ /\ Len(a) < Len(b)
       /\ \A k \in 1..Len(a) : a[k] = b[k]
    \/ \E k \in 1..(IF Len(a) < Len(b) THEN Len(a) ELSE Len(b)) :
          /\ \A j \in 1..(k - 1) : a[j] = b[j]
          /\ CharCode(a[k]) < CharCode(b[k])

\* files.sort(): the names of a directory are pairwise different
RECURSIVE SortNames(_)
SortNames(S) ==
    IF S = {} THEN << >>
    ELSE LET m == CHOOSE x \in S : \A y \in S \ {x} : StrLess(x, y)
         IN  << m >> \o SortNames(S \ {m})

\* String(i).padStart(3, '0') for 0 <= i <= 999
PadStart3(i) ==
    << DigitChars[(i \div 100) + 1], DigitChars[((i \div 10) % 10) + 1], DigitChars[(i % 10) + 1] >>

\* parseInt(s, 10) of a string of decimal digits
RECURSIVE ParseInt(_)
ParseInt(s) ==
    IF s = << >> THEN 0
    ELSE 10 * ParseInt(SubSeq(s, 1, Len(s) - 1)) + DigitVal(s[Len(s)])

(***************************************************************************)
(* Regular expressions of generate-manifest.js.                            *)
(***************************************************************************)
ImageExts == { << "j", "p", "g" >>, << "j", "p", "e", "g" >>, << "p", "n", "g" >> }

\* the literal lit occurs in s at position i, ignoring case
LitAt(s, i, lit) ==
    /\ i >= 1
    /\ i + Len(lit) - 1 <= Len(s)
    /\ \A k \in 1..Len(lit) : ToUpper(s[i + k - 1]) = ToUpper(lit[k])

\* \d{n} at position i
DigitsAt(s, i, n) ==
    /\ i + n - 1 <= Len(s)
    /\ \A k \in 0..(n - 1) : IsDigit(s[i + k])

\* /\.(jpg|jpeg|png)$/i.test(file)
HasImageExt(file) ==
    \E e \in ImageExts : LitAt(file, Len(file) - Len(e), << "." >> \o e)

\* /IMG_(\d{8})_(\d{6})_(\d{2})_(\d{3})\.(jpg|jpeg|png)/i matches s at position i
PatternAt(s, i) ==
    /\ LitAt(s, i, << "I", "M", "G", "_" >>)
    /\ DigitsAt(s, i + 4, 8)
    /\ LitAt(s, i + 12, << "_" >>)
    /\ DigitsAt(s, i + 13, 6)
    /\ LitAt(s, i + 19, << "_" >>)
    /\ DigitsAt(s, i + 20, 2)
    /\ LitAt(s, i + 22, << "_" >>)
    /\ DigitsAt(s, i + 23, 3)
    /\ LitAt(s, i + 26, << "." >>)
    /\ \E e \in ImageExts : LitAt(s, i + 27, e)

\* filename.match(...): the pattern is not anchored, the leftmost match wins
PatternMatches(s) == \E i \in 1..Len(s) : PatternAt(s, i)

MatchStart(s) == CHOOSE i \in 1..Len(s) : PatternAt(s, i) /\ \A j \in 1..(i - 1) : ~PatternAt(s, j)

PathPrefix == << "/", "V", "M", "A", "P", "/", "i", "m", "a", "g", "e", "s", "/" >>

\* the record pushed for the file at 0-based position index of the sorted list
ManifestEntry(filename, index) ==
    LET i        == MatchStart(filename)
        date     == SubSeq(filename, i + 4, i + 11)
        time     == SubSeq(filename, i + 13, i + 18)
        sequence == SubSeq(filename, i + 23, i + 25)
    IN  [ id       |-> index + 1,
          filename |-> filename,
          path     |-> PathPrefix \o filename,
          sequence |-> ParseInt(sequence),
          date     |-> date,
          time     |-> time,
          metadata |-> [ captureDate |-> SubSeq(date, 1, 4) \o << "-" >> \o SubSeq(date, 5, 6)
                                          \o << "-" >> \o SubSeq(date, 7, 8),
                         captureTime |-> SubSeq(time, 1, 2) \o << ":" >> \o SubSeq(time, 3, 4)
                                          \o << ":" >> \o SubSeq(time, 5, 6) ] ]

\* files.forEach(...) over positions from..Len(files)
RECURSIVE ManifestImages(_, _)
ManifestImages(files, from) ==
    IF from > Len(files) THEN << >>
    ELSE (IF PatternMatches(files[from])
          THEN << ManifestEntry(files[from], from - 1) >>
          ELSE << >>) \o ManifestImages(files, from + 1)

\* generateManifest() for the directory content d; the `generated` time
\* stamp is left out, nothing reads it
generateManifest(d) ==
    LET files == SortNames({ f \in d : HasImageExt(f) })
    IN  [ total    |-> Len(files),
          building |-> "StanGrad",
          floor    |-> 2,
          wing     |-> "MB Wing",
          campus   |-> "SAIT",
          images   |-> ManifestImages(files, 1) ]

(***************************************************************************)
(* The URL the panorama viewer requests for an image record.               *)
(***************************************************************************)
\* src={image.path} of the img element of components/PanoramaViewer.jsx
imgSrc(image) == image.path

\* loadImage() of the PanoramaViewer that builds the path itself: the state
\* it sets, imagePath being the src of its img element
loadImage(image) ==
    LET sequenceNum  == PadStart3(image.sequence)
        possiblePath == PathPrefix
                        \o << "I", "M", "G", "_", "2", "0", "2", "5", "1", "0", "0", "6", "_",
                              "1", "8", "5", "5", "3", "9", "_", "0", "0", "_" >>
                        \o sequenceNum \o << ".", "j", "p", "g" >>
    IN  [ imagePath |-> possiblePath, imageError |-> FALSE ]

(***************************************************************************)
(* utils/imageData                                                         *)
(***************************************************************************)
\* images.push({...}) of the fallback loop, for loop variable i
FallbackRecord(i) ==
    LET sequenceNum == PadStart3(i)
        name == << "I", "M", "G", "_", "2", "0", "2", "5", "1", "0", "0", "6", "_",
                   "1", "8", "5", "5", "3", "9", "_", "0", "0", "_" >>
                \o sequenceNum \o << ".", "j", "p", "g" >>
    IN  [ id          |-> i - 1,
          filename    |-> name,
          path        |-> PathPrefix \o name,
          sequence    |-> i,
          type        |-> "unknown",
          location    |-> [ x |-> 0, y |-> 0, z |-> 0 ],
          connections |-> << >>,
          metadata    |-> [ date     |-> << "2", "0", "2", "5", "-", "1", "0", "-", "0", "6" >>,
                            floor    |-> 2,
                            building |-> "StanGrad",
                            wing     |-> "MB Wing",
                            campus   |-> "SAIT" ] ]

\* first and last value of the fallback loop variable
FallbackFirst == 2
FallbackLast == 119

\* for (let i = 2; i <= 119; i++) images.push(...)
FallbackImages == [ k \in 1..(FallbackLast - FallbackFirst + 1) |-> FallbackRecord(k + FallbackFirst - 1) ]

\* img.id: reading a property the object lacks gives undefined
PropertyId(img) == IF "id" \in DOMAIN img THEN img.id ELSE Undefined

\* manifest.images.map(img => ({...}))
FromManifest(m) ==
    [ k \in 1..Len(m.images) |->
        LET img == m.images[k]
        IN  [ id          |-> PropertyId(img),
              filename    |-> img.filename,
              path        |-> img.path,
              sequence    |-> img.sequence,
              type        |-> "unknown",
              location    |-> [ x |-> 0, y |-> 0, z |-> 0 ],
              connections |-> << >>,
              metadata    |-> [ date     |-> img.metadata.captureDate,
                                time     |-> img.metadata.captureTime,
                                floor    |-> 2,
                                building |-> "StanGrad",
                                wing     |-> "MB Wing",
                                campus   |-> "SAIT" ] ] ]

\* What the fetch of the manifest can do (outcome):
\*   "throws"     fetch rejects (network error)
\*   "not-ok"     a response with response.ok false
\*   "ok"         response.ok, the body is the manifest file
\*   "bad-json"   response.ok, the body is not JSON: response.json() rejects
\*   "no-images"  response.ok, the body is JSON without an `images` member
\*   "bad-entry"  response.ok, the entries of `images` lack `metadata`
\*   "no-id"      response.ok, the entries of `images` lack `id`
FetchOutcomes == { "throws", "not-ok", "ok", "bad-json", "no-images", "bad-entry", "no-id" }

\* outcomes in which the body comes from the manifest file
NeedsManifest == { "ok", "no-images", "bad-entry", "no-id" }

\* images of the body without the property f
ImagesWithout(m, f) ==
    [ k \in 1..Len(m.images) |-> [ g \in DOMAIN m.images[k] \ { f } |-> m.images[k][g] ] ]

\* the object response.json() resolves to, for the manifest m of the file
ResponseBody(outcome, m) ==
    CASE outcome = "no-images" -> [ f \in DOMAIN m \ { "images" } |-> m[f] ]
      [] outcome = "bad-entry" -> [ m EXCEPT !.images = ImagesWithout(m, "metadata") ]
      [] outcome = "no-id"     -> [ m EXCEPT !.images = ImagesWithout(m, "id") ]
      [] OTHER -> m

\* how a block of statements ends
Returns(v) == [ kind |-> "return", value |-> v ]
Throws == [ kind |-> "throw", value |-> << >> ]
FallsThrough == [ kind |-> "next", value |-> << >> ]

\* the try block of generateImageList
TryBlock(outcome, file) ==
    IF outcome = "throws" THEN Throws
    ELSE IF outcome = "not-ok" THEN FallsThrough
    ELSE IF outcome = "bad-json" THEN Throws
    ELSE LET body == ResponseBody(outcome, file[1])
         IN  IF "images" \notin DOMAIN body THEN Throws
             ELSE IF \E k \in 1..Len(body.images) : "metadata" \notin DOMAIN body.images[k]
                  THEN Throws
                  ELSE Returns(FromManifest(body))

\* a catch block that lets the error escape
CatchBlock_rethrow(t) == t

\* catch (error) { console.warn(...) }: the error is swallowed
CatchBlock(t) == IF t.kind = "throw" THEN FallsThrough ELSE t

\* how the promise of generateImageList() settles: fulfilled with the mapped
\* manifest, fulfilled with the fallback list, or rejected
generateImageList(outcome, file) ==
    LET t == CatchBlock(TryBlock(outcome, file))
    IN  CASE t.kind = "return" -> [ status |-> "fulfilled", source |-> "manifest", value |-> t.value ]
          [] t.kind = "next"   -> [ status |-> "fulfilled", source |-> "fallback", value |-> FallbackImages ]
          [] OTHER             -> [ status |-> "rejected", source |-> "rejected", value |-> << >> ]

\* buildNavigationGraph whose 'back' connection targets the image itself
buildNavigationGraph_backToSelf(imgs) ==
    [ k \in 1..Len(imgs) |->
        LET index == k - 1
            back == IF index > 0
                    THEN << [ direction |-> "back",
                              targetId  |-> imgs[k].id,
                              hotspot   |-> [ pitch |-> 0, yaw |-> 180 ] ] >>
                    ELSE << >>
            forward == IF index < Len(imgs) - 1
                       THEN << [ direction |-> "forward",
                                 targetId  |-> imgs[k + 1].id,
                                 hotspot   |-> [ pitch |-> 0, yaw |-> 0 ] ] >>
                       ELSE << >>
        IN  [ imgs[k] EXCEPT !.connections = back \o forward ] ]

\* buildNavigationGraph(images)
buildNavigationGraph(imgs) ==
    [ k \in 1..Len(imgs) |->
        LET index == k - 1
            back == IF index > 0
                    THEN << [ direction |-> "back",
                              targetId  |-> imgs[k - 1].id,
                              hotspot   |-> [ pitch |-> 0, yaw |-> 180 ] ] >>
                    ELSE << >>
            forward == IF index < Len(imgs) - 1
                       THEN << [ direction |-> "forward",
                                 targetId  |-> imgs[k + 1].id,
                                 hotspot   |-> [ pitch |-> 0, yaw |-> 0 ] ] >>
                       ELSE << >>
        IN  [ imgs[k] EXCEPT !.connections = back \o forward ] ]

(***************************************************************************)
(* src/components/FloorPlan.jsx                                            *)
(***************************************************************************)
\* <canvas width={800} height={600}>
canvasWidth == 800
canvasHeight == 600
padding == 50
\* if (distance < 15)
hitRadius == 15

pathWidth == canvasWidth - 2 * padding
pathHeight == canvasHeight - 2 * padding

\* positions with the column taken modulo 9 instead of 10
positions_colMod9(imgs) ==
    [ k \in 1..Len(imgs) |->
        LET index     == k - 1
            row       == index \div 10
            col       == index % 9
            isEvenRow == row % 2 = 0
            x         == padding + (IF isEvenRow THEN col ELSE 9 - col) * (pathWidth \div 10)
            y         == padding + row * (pathHeight \div 10)
        IN  [ x |-> x, y |-> y, index |-> index ] ]

\* positions with the row parity test inverted
positions_oddFirst(imgs) ==
    [ k \in 1..Len(imgs) |->
        LET index     == k - 1
            row       == index \div 10
            col       == index % 10
            isEvenRow == row % 2 = 1
            x         == padding + (IF isEvenRow THEN col ELSE 9 - col) * (pathWidth \div 10)
            y         == padding + row * (pathHeight \div 10)
        IN  [ x |-> x, y |-> y, index |-> index ] ]

\* positions without the reversal of odd rows
positions_noReversal(imgs) ==
    [ k \in 1..Len(imgs) |->
        LET index     == k - 1
            row       == index \div 10
            col       == index % 10
            isEvenRow == row % 2 = 0
            x         == padding + col * (pathWidth \div 10)
            y         == padding + row * (pathHeight \div 10)
        IN  [ x |-> x, y |-> y, index |-> index ] ]

\* positions with Math.ceil instead of Math.floor for the row
positions_ceilRow(imgs) ==
    [ k \in 1..Len(imgs) |->
        LET index     == k - 1
            row       == (index + 9) \div 10
            col       == index % 10
            isEvenRow == row % 2 = 0
            x         == padding + (IF isEvenRow THEN col ELSE 9 - col) * (pathWidth \div 10)
            y         == padding + row * (pathHeight \div 10)
        IN  [ x |-> x, y |-> y, index |-> index ] ]

\* const positions = images.map((img, index) => ...) of the draw effect;
\* pathWidth / 10 and pathHeight / 10 are whole numbers for the 800 x 600 canvas
positions(imgs) ==
    [ k \in 1..Len(imgs) |->
        LET index     == k - 1
            row       == index \div 10
            col       == index % 10
            isEvenRow == row % 2 = 0
            x         == padding + (IF isEvenRow THEN col ELSE 9 - col) * (pathWidth \div 10)
            y         == padding + row * (pathHeight \div 10)
        IN  [ x |-> x, y |-> y, index |-> index ] ]

\* the draw effect: returns before touching the canvas when there are no images
DrawEffect(imgs, before) ==
    IF Len(imgs) = 0 THEN before ELSE positions(imgs)

\* clickMarker with rows half as far apart
clickMarker_halfRowStep(index) ==
    LET row       == index \div 10
        col       == index % 10
        isEvenRow == row % 2 = 0
        markerX   == padding + (IF isEvenRow THEN col ELSE 9 - col) * (pathWidth \div 10)
        markerY   == padding + row * (pathHeight \div 20)
    IN  [ x |-> markerX, y |-> markerY ]

\* markerX, markerY of handleCanvasClick for one index
clickMarker(index) ==
    LET row       == index \div 10
        col       == index % 10
        isEvenRow == row % 2 = 0
        markerX   == padding + (IF isEvenRow THEN col ELSE 9 - col) * (pathWidth \div 10)
        markerY   == padding + row * (pathHeight \div 10)
    IN  [ x |-> markerX, y |-> markerY ]

\* hoverMarker reversing odd rows with 10 - col instead of 9 - col
hoverMarker_offByOne(index) ==
    LET row       == index \div 10
        col       == index % 10
        isEvenRow == row % 2 = 0
        markerX   == padding + (IF isEvenRow THEN col ELSE 10 - col) * (pathWidth \div 10)
        markerY   == padding + row * (pathHeight \div 10)
    IN  [ x |-> markerX, y |-> markerY ]

\* markerX, markerY of handleCanvasMouseMove for one index
hoverMarker(index) ==
    LET row       == index \div 10
        col       == index % 10
        isEvenRow == row % 2 = 0
        markerX   == padding + (IF isEvenRow THEN col ELSE 9 - col) * (pathWidth \div 10)
        markerY   == padding + row * (pathHeight \div 10)
    IN  [ x |-> markerX, y |-> markerY ]

\* Near with the radius itself counted as a hit
Near_inclusive(x, y, marker) ==
    (x - marker.x) * (x - marker.x) + (y - marker.y) * (y - marker.y) <= hitRadius * hitRadius

\* Math.sqrt(dx^2 + dy^2) < 15 for whole-number coordinates
Near(x, y, marker) ==
    (x - marker.x) * (x - marker.x) + (y - marker.y) * (y - marker.y) < hitRadius * hitRadius

Min2(a, b) == IF a < b THEN a ELSE b

SetMax(S) == CHOOSE m \in S : \A o \in S : o <= m

\* App.handleImageSelect accepting the index images.length
handleImageSelect_inclusive(index, imgs, current) ==
    IF index >= 0 /\ index <= Len(imgs) THEN index ELSE current

\* App.handleImageSelect(index), given the state the handler closed over
handleImageSelect(index, imgs, current) ==
    IF index >= 0 /\ index < Len(imgs) THEN index ELSE current

\* App.handleNavigate with the two directions exchanged
handleNavigate_swapped(direction, imgs, current) ==
    IF direction = "back" /\ current < Len(imgs) - 1 THEN current + 1
    ELSE IF direction = "forward" /\ current > 0 THEN current - 1
    ELSE current

\* App.handleNavigate that wraps around at the two ends
handleNavigate_wraps(direction, imgs, current) ==
    IF direction = "forward" THEN (IF current < Len(imgs) - 1 THEN current + 1 ELSE 0)
    ELSE IF direction = "back" /\ current > 0 THEN current - 1
    ELSE current

\* App.handleNavigate whose forward guard stops one image early
handleNavigate_stopsEarly(direction, imgs, current) ==
    IF direction = "forward" /\ current < Len(imgs) - 2 THEN current + 1
    ELSE IF direction = "back" /\ current > 0 THEN current - 1
    ELSE current

\* App.handleNavigate(direction), given the state the handler closed over
handleNavigate(direction, imgs, current) ==
    IF direction = "forward" /\ current < Len(imgs) - 1 THEN current + 1
    ELSE IF direction = "back" /\ current > 0 THEN current - 1
    ELSE current

\* Navigation.handleNext with props currentIndex, totalImages: the index
\* App holds after onNavigate('forward'), if it is called
handleNext(imgs, currentIndex) ==
    IF currentIndex < Len(imgs) - 1 THEN handleNavigate("forward", imgs, currentIndex)
    ELSE currentIndex

\* Navigation.handlePrevious
handlePrevious(imgs, currentIndex) ==
    IF currentIndex > 0 THEN handleNavigate("back", imgs, currentIndex)
    ELSE currentIndex

\* Navigation.handleKeyPress(e) for e.key = key
handleKeyPress(key, imgs, currentIndex) ==
    IF key = "ArrowLeft" THEN handlePrevious(imgs, currentIndex)
    ELSE IF key = "ArrowRight" THEN handleNext(imgs, currentIndex)
    ELSE currentIndex

\* disabled={currentIndex === 0} of the Previous button
previousDisabled(currentIndex) == currentIndex = 0

\* disabled={currentIndex === totalImages - 1} of the Next button
nextDisabled(currentIndex, totalImages) == currentIndex = totalImages - 1

\* ((currentIndex + 1) / totalImages) * 100 as a JavaScript number: the
\* exact quotient num / den, or Infinity or NaN when totalImages is 0
progressPercentage(currentIndex, totalImages) ==
    IF totalImages # 0
    THEN [ kind |-> "finite", num |-> (currentIndex + 1) * 100, den |-> totalImages ]
    ELSE IF currentIndex + 1 = 0
         THEN [ kind |-> "NaN", num |-> 0, den |-> 0 ]
         ELSE [ kind |-> "Infinity", num |-> currentIndex + 1, den |-> 0 ]

\* e.target.value of the range input: the decimal digits of its value
RECURSIVE DecimalString(_)
DecimalString(n) ==
    IF n < 10 THEN << DigitChars[n + 1] >>
    ELSE DecimalString(n \div 10) \o << DigitChars[(n % 10) + 1] >>

\* Navigation.handleSliderChange(e): onImageSelect(parseInt(e.target.value))
handleSliderChange(value, imgs, currentIndex) ==
    handleImageSelect(ParseInt(value), imgs, currentIndex)

\* imageIndex of the thumbnail at position index of the timeline;
\* Math.floor((index / 20) * totalImages) is the whole-number quotient for
\* every total below 90
thumbnailImageIndex(index, totalImages) == (index * totalImages) \div 20

\* values of e.key offered to handleKeyPress
Keys == { "ArrowLeft", "ArrowRight", "Enter" }
\* arguments offered to handleNavigate
Directions == { "forward", "back", "up" }

\* the indices for which handleCanvasClick calls onImageSelect
clickHits(x, y, imgs) == { index \in 0..(Len(imgs) - 1) : Near(x, y, clickMarker(index)) }

\* the index App holds after handleCanvasClick with the pointer at (x, y):
\* onImageSelect(index) for every marker nearer than hitRadius, in index
\* order, each call closing over the same state, the last one deciding
clickSelects(x, y, imgs, current) ==
    LET hits == clickHits(x, y, imgs)
    IN  IF hits = {} THEN current
        ELSE handleImageSelect(SetMax(hits), imgs, current)

\* pointer positions relative to the canvas, offered to the two mouse handlers
PointerXs == { 59, 65, 680 }
PointerYs == { 61, 100, 600 }

(***************************************************************************)
(* The images directory: names the script can meet.                        *)
(***************************************************************************)
Date8 == << "2", "0", "2", "5", "1", "0", "0", "6" >>
TimeA == << "1", "8", "5", "5", "3", "9" >>
TimeB == << "1", "8", "5", "5", "4", "5" >>
Us == << "_" >>
Img == << "I", "M", "G", "_" >>
Jpg == << ".", "j", "p", "g" >>

Capture(time, sequence, ext) ==
    Img \o Date8 \o Us \o time \o Us \o << "0", "0" >> \o Us \o sequence \o ext

FileNames ==
    { Capture(TimeA, << "0", "0", "2" >>, Jpg),
      Capture(TimeA, << "0", "0", "3" >>, Jpg),
      Capture(TimeB, << "0", "0", "2" >>, Jpg),
      Capture(TimeB, << "0", "0", "4" >>, << ".", "p", "n", "g" >>),
      << "i", "m", "g", "_" >> \o Date8 \o Us \o TimeB \o Us \o << "0", "0" >> \o Us
          \o << "0", "0", "5" >> \o << ".", "J", "P", "E", "G" >>,
      Capture(TimeA, << "0", "6" >>, Jpg),
      Img \o << "2", "0", "2", "5", "1", "0", "6" >> \o Us \o TimeA \o Us \o << "0", "0" >> \o Us
          \o << "0", "0", "7" >> \o Jpg,
      << "c", "o", "v", "e", "r" >> \o Jpg,
      << "n", "o", "t", "e", "s", ".", "t", "x", "t" >>,
      Capture(TimeA, << "0", "0", "8" >>, << ".", "g", "i", "f" >>),
      << "c", "o", "p", "y", "_" >> \o Capture(TimeA, << "0", "0", "9" >>, Jpg),
      Capture(TimeA, << "0", "1", "0" >>, Jpg) \o << ".", "p", "n", "g" >> }

Directories == { d \in SUBSET FileNames : Cardinality(d) <= MaxFiles }

(***************************************************************************)
(* Specification DataSpec: the manifest script, then the image list and    *)
(* the navigation graph computed from what the script wrote.               *)
(***************************************************************************)
DataInit ==
    /\ dir \in Directories
    /\ manifest = NoManifest
    /\ imageList = << >>
    /\ listSource = "none"
    /\ graph = << >>
    /\ images = << >>
    /\ currentImageIndex = 0
    /\ hoveredIndex = Null
    /\ drawn = << >>
    /\ fetchOutcome = "none"
    /\ loading = TRUE
    /\ showFloorPlan = FALSE
    /\ showTimeline = FALSE
    /\ viewer = ViewerMounted(Len(images) > 0)
    /\ closure = FirstRender
    /\ pipeline = NoPipeline

\* node scripts/generate-manifest.js
RunGenerateManifest ==
    /\ manifest' = ManifestFile(generateManifest(dir))
    /\ UNCHANGED << dir, imageList, listSource, graph, fetchOutcome >>
    /\ UNCHANGED << viewVars, appVars, renderVars, pipeline >>

\* generateImageList() runs to completion; the manifest can only be served
\* once the script has written it
LoadImageList(outcome) ==
    /\ outcome \in NeedsManifest => manifest # NoManifest
    /\ outcome \in { "bad-entry", "no-id" } => Len(manifest[1].images) > 0
    /\ LET settled == generateImageList(outcome, manifest)
       IN  /\ imageList' = settled.value
           /\ listSource' = settled.source
    /\ fetchOutcome' = outcome
    /\ UNCHANGED << dir, manifest, graph >>
    /\ UNCHANGED << viewVars, appVars, renderVars, pipeline >>

\* buildNavigationGraph applied to the resolved list
ApplyBuildNavigationGraph ==
    /\ listSource # "none"
    /\ graph' = buildNavigationGraph(imageList)
    /\ UNCHANGED << dir, manifest, imageList, listSource, fetchOutcome >>
    /\ UNCHANGED << viewVars, appVars, renderVars, pipeline >>

DataNext ==
    \/ RunGenerateManifest
    \/ \E outcome \in FetchOutcomes : LoadImageList(outcome)
    \/ ApplyBuildNavigationGraph

DataSpec == DataInit /\ [][DataNext]_vars

(***************************************************************************)
(* Specification LayoutSpec: the FloorPlan component mounted with a list   *)
(* of total image records (0 <= total <= MaxTotal) as built by             *)
(* buildNavigationGraph, the pointer clicking and moving over its canvas.  *)
(***************************************************************************)
ImageProps(total) == buildNavigationGraph([ k \in 1..total |-> FallbackRecord(k + 1) ])

LayoutInit ==
    /\ \E total \in 0..MaxTotal : images = ImageProps(total)
    /\ currentImageIndex = 0
    /\ hoveredIndex = Null
    /\ drawn = DrawEffect(images, << >>)
    /\ dir = {}
    /\ manifest = NoManifest
    /\ imageList = << >>
    /\ listSource = "none"
    /\ graph = << >>
    /\ fetchOutcome = "none"
    /\ loading = FALSE
    /\ showFloorPlan = TRUE
    /\ showTimeline = FALSE
    /\ viewer = ViewerMounted(Len(images) > 0)
    /\ closure = FirstRender
    /\ pipeline = NoPipeline

\* handleCanvasClick with the pointer at (x, y): onImageSelect(index) for
\* every marker nearer than hitRadius, the last call deciding the state;
\* the draw effect runs when currentImageIndex changed
handleCanvasClick(x, y) ==
    /\ currentImageIndex' = clickSelects(x, y, images, currentImageIndex)
    /\ closure' = Rendered(currentImageIndex')
    /\ drawn' = DrawEffect(images, drawn)
    /\ UNCHANGED << images, hoveredIndex, viewer >>
    /\ UNCHANGED << dataVars, appVars, pipeline >>

\* handleCanvasMouseMove with the pointer at (x, y), then the draw effect
handleCanvasMouseMove(x, y) ==
    LET hits == { index \in 0..(Len(images) - 1) : Near(x, y, hoverMarker(index)) }
        foundHover == IF hits = {} THEN Null ELSE SetMax(hits)
    IN  /\ hoveredIndex' = foundHover
        /\ drawn' = DrawEffect(images, drawn)
        /\ UNCHANGED << images, currentImageIndex >>
        /\ UNCHANGED << dataVars, appVars, renderVars, pipeline >>

LayoutNext ==
    \/ \E x \in PointerXs, y \in PointerYs : handleCanvasClick(x, y)
    \/ \E x \in PointerXs, y \in PointerYs : handleCanvasMouseMove(x, y)

LayoutSpec == LayoutInit /\ [][LayoutNext]_vars

(***************************************************************************)
(* Specification AppSpec: App mounts, its effect runs initializeImages,    *)
(* the fetch started by generateImageList settles later.                   *)
(***************************************************************************)
\* values a JavaScript variable of initializeImages can hold
JsPromise == [ kind |-> "promise", items |-> << >> ]
JsArray(items) == [ kind |-> "array", items |-> items ]

\* buildNavigationGraph(value): images.map exists on arrays only, on any
\* other value the call throws a TypeError
buildNavigationGraphOf(value) ==
    IF value.kind = "array" THEN Returns(buildNavigationGraph(value.items)) ELSE Throws

\* const imageList = generateImageList(): the call of an async function,
\* not awaited, evaluates to its promise
CallGenerateImageList == JsPromise

AppInit ==
    /\ dir \in Directories
    /\ manifest \in { NoManifest, ManifestFile(generateManifest(dir)) }
    /\ imageList = << >>
    /\ listSource = "none"
    /\ graph = << >>
    /\ images = << >>
    /\ currentImageIndex = 0
    /\ hoveredIndex = Null
    /\ drawn = << >>
    /\ fetchOutcome = "none"
    /\ loading = TRUE
    /\ showFloorPlan = FALSE
    /\ showTimeline = FALSE
    /\ viewer = ViewerMounted(Len(images) > 0)
    /\ closure = FirstRender
    /\ pipeline = NoPipeline

\* the mount effect: initializeImages() up to the end of its try/catch
InitializeImages ==
    /\ fetchOutcome = "none"
    /\ LET navigationGraph == buildNavigationGraphOf(CallGenerateImageList)
       IN  /\ images' = IF navigationGraph.kind = "return" THEN navigationGraph.value ELSE images
           /\ loading' = FALSE
    /\ fetchOutcome' = "pending"
    /\ UNCHANGED << dir, manifest, imageList, listSource, graph >>
    /\ UNCHANGED << currentImageIndex, hoveredIndex, drawn, showFloorPlan, showTimeline, pipeline >>
    /\ UNCHANGED renderVars

\* the promise of generateImageList() settles; nothing waits for it
FetchSettles(outcome) ==
    /\ fetchOutcome = "pending"
    /\ LoadImageList(outcome)

\* App.toggleFloorPlan (the header button, or the close button of the
\* floor plan); FloorPlan mounts and its draw effect runs, or it unmounts
toggleFloorPlan ==
    /\ ~loading
    /\ showFloorPlan' = ~showFloorPlan
    /\ drawn' = IF showFloorPlan THEN << >> ELSE DrawEffect(images, << >>)
    /\ UNCHANGED << images, currentImageIndex, hoveredIndex, loading, showTimeline, pipeline >>
    /\ UNCHANGED renderVars
    /\ UNCHANGED dataVars

\* Navigation.toggleTimeline
toggleTimeline ==
    /\ ~loading
    /\ showTimeline' = ~showTimeline
    /\ UNCHANGED << loading, showFloorPlan, pipeline >>
    /\ UNCHANGED renderVars
    /\ UNCHANGED << viewVars, dataVars >>

AppNext ==
    \/ InitializeImages
    \/ \E outcome \in FetchOutcomes : FetchSettles(outcome)
    \/ toggleFloorPlan
    \/ toggleTimeline

AppSpec == AppInit /\ [][AppNext]_vars

(***************************************************************************)
(* Specification NavSpec: App rendered with a list of total image records  *)
(* (0 <= total <= MaxNav), driven through the Navigation controls, the     *)
(* hotspots of the viewer, the keyboard and the floor plan.                *)
(***************************************************************************)
NavInit ==
    /\ \E total \in 0..MaxNav : images = ImageProps(total)
    /\ currentImageIndex = 0
    /\ hoveredIndex = Null
    /\ drawn = << >>
    /\ dir = {}
    /\ manifest = NoManifest
    /\ imageList = << >>
    /\ listSource = "none"
    /\ graph = << >>
    /\ fetchOutcome = "none"
    /\ loading = FALSE
    /\ showFloorPlan = FALSE
    /\ showTimeline = FALSE
    /\ viewer = ViewerMounted(Len(images) > 0)
    /\ closure = FirstRender
    /\ pipeline = NoPipeline

\* App re-renders with the index next; the draw effect of a mounted
\* FloorPlan runs again
SetCurrentImageIndex(next) ==
    /\ currentImageIndex' = next
    /\ closure' = Rendered(next)
    /\ drawn' = IF showFloorPlan THEN DrawEffect(images, drawn) ELSE drawn
    /\ UNCHANGED << images, hoveredIndex, viewer >>
    /\ UNCHANGED << dataVars, appVars, pipeline >>

\* a click on the Next button, which is disabled on the last image
ClickNext ==
    /\ ~nextDisabled(currentImageIndex, Len(images))
    /\ SetCurrentImageIndex(handleNext(images, currentImageIndex))

\* a click on the Previous button, which is disabled on the first image
ClickPrevious ==
    /\ ~previousDisabled(currentImageIndex)
    /\ SetCurrentImageIndex(handlePrevious(images, currentImageIndex))

\* a key pressed while the navigation bar has the focus
KeyDown(key) ==
    SetCurrentImageIndex(handleKeyPress(key, images, currentImageIndex))

\* onNavigate(direction): a hotspot of the viewer, or any other caller
OnNavigate(direction) ==
    SetCurrentImageIndex(handleNavigate(direction, images, currentImageIndex))

\* onImageSelect(index) with an arbitrary index
OnImageSelect(index) ==
    SetCurrentImageIndex(handleImageSelect(index, images, currentImageIndex))

\* the slider of the timeline moved to value (min 0, max totalImages - 1)
SliderChange(value) ==
    /\ showTimeline
    /\ value \in 0..(Len(images) - 1)
    /\ SetCurrentImageIndex(handleSliderChange(DecimalString(value), images, currentImageIndex))

\* a click on the thumbnail at position index of the timeline
ThumbnailClick(index) ==
    /\ showTimeline
    /\ index \in 0..(Min2(Len(images), 20) - 1)
    /\ SetCurrentImageIndex(
          handleImageSelect(thumbnailImageIndex(index, Len(images)), images, currentImageIndex))

\* a click on the canvas of the floor plan, which is there while it is shown
FloorPlanClick(x, y) ==
    /\ showFloorPlan
    /\ handleCanvasClick(x, y)

NavNext ==
    \/ ClickNext
    \/ ClickPrevious
    \/ \E key \in Keys : KeyDown(key)
    \/ \E direction \in Directions : OnNavigate(direction)
    \/ \E index \in (0 - 2)..(MaxNav + 1) : OnImageSelect(index)
    \/ \E value \in 0..MaxNav : SliderChange(value)
    \/ \E index \in 0..19 : ThumbnailClick(index)
    \/ \E x \in PointerXs, y \in PointerYs : FloorPlanClick(x, y)
    \/ toggleFloorPlan
    \/ toggleTimeline

NavSpec == NavInit /\ [][NavNext]_vars

(***************************************************************************)
(* Specification RenderSpec: App rendered with a list of total image       *)
(* records at some index; navigation calls reach the handlers of the       *)
(* render that is attached, and App renders again some time after a        *)
(* state update.                                                           *)
(***************************************************************************)
RenderInit ==
    /\ \E total \in 0..MaxNav : images = ImageProps(total)
    /\ currentImageIndex \in 0..(IF Len(images) > 0 THEN Len(images) - 1 ELSE 0)
    /\ hoveredIndex = Null
    /\ drawn = << >>
    /\ dir = {}
    /\ manifest = NoManifest
    /\ imageList = << >>
    /\ listSource = "none"
    /\ graph = << >>
    /\ fetchOutcome = "none"
    /\ loading = FALSE
    /\ showFloorPlan = FALSE
    /\ showTimeline = FALSE
    /\ viewer = ViewerMounted(Len(images) > 0)
    /\ closure = Rendered(currentImageIndex)
    /\ pipeline = NoPipeline

\* handleNavigate(direction) of the attached render runs:
\* setCurrentImageIndex with a value computed from the index it closed over
DispatchNavigate(direction) ==
    /\ currentImageIndex' = LET next == handleNavigate(direction, images, closure.currentImageIndex)
                            IN  IF next = closure.currentImageIndex THEN currentImageIndex ELSE next
    /\ closure' =
          IF direction = "forward"
          THEN [ closure EXCEPT !.forwards = Min2(@ + 1, 3),
                                !.start = IF closure.forwards = 0 THEN currentImageIndex ELSE @ ]
          ELSE [ closure EXCEPT !.forwards = 0, !.start = currentImageIndex' ]
    /\ UNCHANGED << images, hoveredIndex, drawn, viewer >>
    /\ UNCHANGED << dataVars, appVars, pipeline >>

\* App renders with the state it has; the new handlers are attached
ReRender ==
    /\ closure.currentImageIndex # currentImageIndex
    /\ closure' = [ closure EXCEPT !.currentImageIndex = currentImageIndex ]
    /\ UNCHANGED << viewVars, viewer >>
    /\ UNCHANGED << dataVars, appVars, pipeline >>

RenderNext ==
    \/ \E direction \in Directions : DispatchNavigate(direction)
    \/ ReRender

RenderSpec == RenderInit /\ [][RenderNext]_vars

(***************************************************************************)
(* src/components/PanoramaViewer.jsx                                       *)
(***************************************************************************)
\* handleImageLoad: setImageLoaded(true); setImageError(false)
handleImageLoad(v) == [ v EXCEPT !.imageLoaded = TRUE, !.imageError = FALSE ]

\* handleImageError: setImageError(true); setImageLoaded(false)
handleImageError(v) == [ v EXCEPT !.imageError = TRUE, !.imageLoaded = FALSE ]

\* a reset effect that leaves imageError alone
resetEffect_keepsError(v) == [ v EXCEPT !.imageLoaded = FALSE ]

\* the effect on [image]: setImageError(false); setImageLoaded(false)
resetEffect(v) == [ v EXCEPT !.imageError = FALSE, !.imageLoaded = FALSE ]

\* render whose loading overlay does not look at imageError
render_overlayWhileError(v, hasImage, connections) ==
    [ noImage        |-> ~hasImage,
      loadingOverlay |-> hasImage /\ ~v.imageLoaded,
      errorPanel     |-> hasImage /\ v.imageError,
      img            |-> hasImage /\ ~v.imageError,
      hotspots       |-> hasImage /\ ~v.imageError /\ v.imageLoaded /\ Len(connections) > 0,
      infoBadges     |-> hasImage /\ ~v.imageError /\ v.imageLoaded ]

\* what a render of PanoramaViewer puts in the document, for the state v,
\* the prop image present or not, and image.connections
render(v, hasImage, connections) ==
    [ noImage        |-> ~hasImage,
      loadingOverlay |-> hasImage /\ ~v.imageLoaded /\ ~v.imageError,
      errorPanel     |-> hasImage /\ v.imageError,
      img            |-> hasImage /\ ~v.imageError,
      hotspots       |-> hasImage /\ ~v.imageError /\ v.imageLoaded /\ Len(connections) > 0,
      infoBadges     |-> hasImage /\ ~v.imageError /\ v.imageLoaded ]

\* const currentImage = images[currentImageIndex]: undefined out of range
HasCurrentImage == currentImageIndex >= 0 /\ currentImageIndex < Len(images)

\* what PanoramaViewer shows in the current state
Shown ==
    render(viewer, HasCurrentImage,
           IF HasCurrentImage THEN images[currentImageIndex + 1].connections ELSE << >>)

(***************************************************************************)
(* Specification ViewerSpec: App rendered with a list of total image       *)
(* records (0 <= total <= MaxNav), the user navigating, the <img> of the   *)
(* viewer loading or failing.  A render with a new image is committed      *)
(* first, with the flags the viewer had; its effect runs next, before any  *)
(* other event is handled.                                                 *)
(***************************************************************************)
ViewerInit ==
    /\ \E total \in 0..MaxNav : images = ImageProps(total)
    /\ currentImageIndex = 0
    /\ hoveredIndex = Null
    /\ drawn = << >>
    /\ dir = {}
    /\ manifest = NoManifest
    /\ imageList = << >>
    /\ listSource = "none"
    /\ graph = << >>
    /\ fetchOutcome = "none"
    /\ loading = FALSE
    /\ showFloorPlan = FALSE
    /\ showTimeline = FALSE
    /\ viewer = ViewerMounted(Len(images) > 0)
    /\ closure = FirstRender
    /\ pipeline = NoPipeline

\* App commits a render with the image at index next; PanoramaViewer
\* renders it with the flags it has, its <img>, if rendered, gets the new src
CommitImage(next) ==
    /\ viewer.phase = "settled"
    /\ next # currentImageIndex
    /\ currentImageIndex' = next
    /\ viewer' = [ viewer EXCEPT !.phase = "committed", !.requested = ~viewer.imageError ]
    /\ closure' = Rendered(next)
    /\ UNCHANGED << images, hoveredIndex, drawn >>
    /\ UNCHANGED << dataVars, appVars, pipeline >>

\* a hotspot, a button or a key: onNavigate(direction)
ViewerNavigate(direction) ==
    CommitImage(handleNavigate(direction, images, currentImageIndex))

\* slider, thumbnail or floor plan: onImageSelect(index)
ViewerSelect(index) ==
    CommitImage(handleImageSelect(index, images, currentImageIndex))

\* the effect on [image] runs; an <img> that was replaced by the error
\* panel is rendered again and starts to load
ResetEffect ==
    /\ viewer.phase = "committed"
    /\ viewer' = [ resetEffect(viewer) EXCEPT
                     !.phase = "settled",
                     !.eventFor = Null,
                     !.requested = IF resetEffect(viewer).imageError THEN FALSE
                                   ELSE IF viewer.imageError THEN TRUE
                                   ELSE viewer.requested ]
    /\ UNCHANGED << viewVars, closure >>
    /\ UNCHANGED << dataVars, appVars, pipeline >>

\* the load event of the <img>: onLoad={handleImageLoad}
ImageLoads ==
    /\ viewer.phase = "settled"
    /\ viewer.requested
    /\ Shown.img
    /\ viewer' = [ handleImageLoad(viewer) EXCEPT !.requested = FALSE,
                                                  !.eventFor = currentImageIndex ]
    /\ UNCHANGED << viewVars, closure >>
    /\ UNCHANGED << dataVars, appVars, pipeline >>

\* the error event of the <img>: onError={handleImageError}
ImageFails ==
    /\ viewer.phase = "settled"
    /\ viewer.requested
    /\ Shown.img
    /\ viewer' = [ handleImageError(viewer) EXCEPT !.requested = FALSE,
                                                   !.eventFor = currentImageIndex,
                                                   !.lastFailed = currentImageIndex ]
    /\ UNCHANGED << viewVars, closure >>
    /\ UNCHANGED << dataVars, appVars, pipeline >>

ViewerNext ==
    \/ \E direction \in Directions : ViewerNavigate(direction)
    \/ \E index \in (0 - 1)..MaxNav : ViewerSelect(index)
    \/ ResetEffect
    \/ ImageLoads
    \/ ImageFails

ViewerSpec == ViewerInit /\ [][ViewerNext]_vars

(***************************************************************************)
(* The classification / layout / export pipeline (ai-tools): classifier,   *)
(* layout engine, coordinate exporter and batch orchestrator.  Scores and  *)
(* confidences are whole numbers of hundredths (42 stands for 0.42).       *)
(***************************************************************************)
Categories == { "hallway", "classroom", "doorway", "stairwell", "common_area", "office", "lab" }

\* tie-break margin of the classifier, 0.05
Epsilon == 5

\* images of a batch by content: one that cannot be decoded, and four whose
\* features give the category scores of ScoresOf
ImageKinds == { "corrupt", "clear", "ambiguous", "margin", "tie" }

\* category scores computed from the features of an image of each kind
ScoresOf(kind) ==
    [ c \in Categories |->
        CASE kind = "clear"     -> (IF c = "hallway" THEN 80 ELSE 30)
          [] kind = "ambiguous" -> (IF c = "classroom" THEN 42 ELSE IF c = "doorway" THEN 40 ELSE 10)
          [] kind = "margin"    -> (IF c = "office" THEN 50 ELSE IF c = "lab" THEN 45 ELSE 10)
          [] OTHER              -> (IF c \in { "stairwell", "common_area" } THEN 60 ELSE 20) ]

\* confidence clamped to [0, 1]
Clamp(score) == IF score < 0 THEN 0 ELSE IF score > 100 THEN 100 ELSE score

\* classify that takes a difference equal to the margin for a tie
classify_marginIsTie(scores) ==
    LET top     == SetMax({ scores[c] : c \in Categories })
        winners == { c \in Categories : scores[c] = top }
        second  == IF Cardinality(winners) > 1 THEN top
                   ELSE SetMax({ scores[c] : c \in Categories \ winners })
    IN  IF top - second <= Epsilon
        THEN [ category |-> "unknown", confidence |-> Clamp(top) ]
        ELSE [ category |-> CHOOSE c \in winners : TRUE, confidence |-> Clamp(top) ]

\* Classifier decision procedure: the maximum score wins unless the top
\* two scores differ by less than Epsilon
classify(scores) ==
    LET top     == SetMax({ scores[c] : c \in Categories })
        winners == { c \in Categories : scores[c] = top }
        second  == IF Cardinality(winners) > 1 THEN top
                   ELSE SetMax({ scores[c] : c \in Categories \ winners })
    IN  IF top - second < Epsilon
        THEN [ category |-> "unknown", confidence |-> Clamp(top) ]
        ELSE [ category |-> CHOOSE c \in winners : TRUE, confidence |-> Clamp(top) ]

\* extract(image): fails with DecodeError on an image that cannot be decoded
extract(image) ==
    IF image.kind = "corrupt" THEN Throws ELSE Returns(ScoresOf(image.kind))

\* a worker that lets the DecodeError escape and abort the batch
processImage_aborts(image) ==
    LET features == extract(image)
    IN  IF features.kind = "throw" THEN [ outcome |-> "aborted" ]
        ELSE [ outcome        |-> "processed",
               classification |-> [ filename   |-> image.filename,
                                    sequence   |-> image.sequence,
                                    category   |-> classify(features.value).category,
                                    confidence |-> classify(features.value).confidence,
                                    features   |-> features.value ] ]

\* one worker: FeatureExtractor then Classifier on one image, a DecodeError
\* caught, logged and counted as skipped
processImage(image) ==
    LET features == extract(image)
    IN  IF features.kind = "throw" THEN [ outcome |-> "skipped" ]
        ELSE [ outcome        |-> "processed",
               classification |-> [ filename   |-> image.filename,
                                    sequence   |-> image.sequence,
                                    category   |-> classify(features.value).category,
                                    confidence |-> classify(features.value).confidence,
                                    features   |-> features.value ] ]

\* the results left in the order the workers completed
sortBySequence_completionOrder(results) == results

\* results sorted by sequence number
RECURSIVE sortBySequence(_)
sortBySequence(results) ==
    IF results = << >> THEN << >>
    ELSE LET k == CHOOSE i \in 1..Len(results) :
                      \A j \in 1..Len(results) : results[i].sequence <= results[j].sequence
         IN  << results[k] >>
             \o sortBySequence([ i \in 1..(Len(results) - 1) |->
                                   IF i < k THEN results[i] ELSE results[i + 1] ])

\* columns of a row of the serpentine layout
rowWidth == 10

\* LayoutEngine, serpentine mode: the node of the image at position index
\* of total, a single node at the canvas centre
layout(index, total, imageId) ==
    LET row    == index \div rowWidth
        column == index % rowWidth
        effective == IF row % 2 = 1 THEN (rowWidth - 1) - column ELSE column
        rows   == (total + rowWidth - 1) \div rowWidth
    IN  [ imageId    |-> imageId,
          x          |-> IF total = 1 THEN canvasWidth \div 2
                         ELSE padding + (effective * pathWidth) \div rowWidth,
          y          |-> IF total = 1 THEN canvasHeight \div 2
                         ELSE padding + (row * pathHeight) \div rows,
          row        |-> row,
          column     |-> column,
          layoutMode |-> "serpentine" ]

\* the layout nodes of the sorted results
layoutNodes(sorted) ==
    [ k \in 1..Len(sorted) |-> layout(k - 1, Len(sorted), sorted[k].sequence) ]

\* a confidence written with one decimal place
formatScore_oneDecimal(score) ==
    << DigitChars[(score \div 100) + 1], ".", DigitChars[((score \div 10) % 10) + 1] >>

\* a confidence as the exporter writes it: 42 as 0.42
formatScore(score) ==
    << DigitChars[(score \div 100) + 1], ".", DigitChars[((score \div 10) % 10) + 1],
       DigitChars[(score % 10) + 1] >>

\* the confidence read back from its text
parseScore(text) ==
    100 * DigitVal(text[1])
        + (IF Len(text) >= 3 THEN 10 * DigitVal(text[3]) ELSE 0)
        + (IF Len(text) >= 4 THEN DigitVal(text[4]) ELSE 0)

\* CoordinateExporter: classifications and layout nodes merged by sequence
\* number and serialized, numbers as text
export(classifications, nodes) ==
    [ layoutMode   |-> "serpentine",
      canvasWidth  |-> DecimalString(canvasWidth),
      canvasHeight |-> DecimalString(canvasHeight),
      nodes        |->
        [ k \in 1..Len(nodes) |->
            LET c == classifications[CHOOSE j \in 1..Len(classifications) :
                                        classifications[j].sequence = nodes[k].imageId]
            IN  [ id         |-> DecimalString(nodes[k].imageId),
                  filename   |-> c.filename,
                  sequence   |-> DecimalString(c.sequence),
                  x          |-> DecimalString(nodes[k].x),
                  y          |-> DecimalString(nodes[k].y),
                  category   |-> c.category,
                  confidence |-> formatScore(c.confidence) ] ] ]

\* the node set read back from an export
reparse(exported) ==
    { [ id         |-> ParseInt(exported.nodes[k].id),
        x          |-> ParseInt(exported.nodes[k].x),
        y          |-> ParseInt(exported.nodes[k].y),
        category   |-> exported.nodes[k].category,
        confidence |-> parseScore(exported.nodes[k].confidence) ] : k \in 1..Len(exported.nodes) }

(***************************************************************************)
(* Specification PipelineSpec: a batch run over up to MaxBatch images, the *)
(* workers completing in any order, then sort, layout and export, then the *)
(* export read back.                                                       *)
(***************************************************************************)
\* the images of a batch, in the order they are enumerated
BatchOf(kinds) ==
    [ k \in 1..Len(kinds) |->
        [ sequence |-> k + 1, filename |-> FallbackRecord(k + 1).filename, kind |-> kinds[k] ] ]

Batches == UNION { { BatchOf(kinds) : kinds \in [ 1..n -> ImageKinds ] } : n \in 0..MaxBatch }

\* a run that has enumerated its images and started no worker yet
NewRun(batch) ==
    [ batch     |-> batch,
      done      |-> {},
      results   |-> << >>,
      processed |-> 0,
      skipped   |-> 0,
      tally     |-> [ c \in Categories \cup { "unknown" } |-> 0 ],
      stage     |-> "workers",
      sorted    |-> << >>,
      nodes     |-> << >>,
      exported  |-> << >>,
      reparsed  |-> {} ]

PipelineInit ==
    /\ pipeline \in { NewRun(batch) : batch \in Batches }
    /\ dir = {}
    /\ manifest = NoManifest
    /\ imageList = << >>
    /\ listSource = "none"
    /\ graph = << >>
    /\ images = << >>
    /\ currentImageIndex = 0
    /\ hoveredIndex = Null
    /\ drawn = << >>
    /\ fetchOutcome = "none"
    /\ loading = FALSE
    /\ showFloorPlan = FALSE
    /\ showTimeline = FALSE
    /\ viewer = ViewerMounted(Len(images) > 0)
    /\ closure = FirstRender

\* the worker of image i completes; the summary is updated in one step
WorkerCompletes(i) ==
    /\ pipeline.stage = "workers"
    /\ i \in (1..Len(pipeline.batch)) \ pipeline.done
    /\ LET r == processImage(pipeline.batch[i])
       IN  pipeline' =
             CASE r.outcome = "processed" ->
                    [ pipeline EXCEPT !.done = @ \cup { i },
                                      !.results = Append(@, r.classification),
                                      !.processed = @ + 1,
                                      !.tally[r.classification.category] = @ + 1 ]
               [] r.outcome = "skipped" ->
                    [ pipeline EXCEPT !.done = @ \cup { i }, !.skipped = @ + 1 ]
               [] OTHER -> [ pipeline EXCEPT !.stage = "aborted" ]
    /\ UNCHANGED << dataVars, viewVars, appVars, renderVars >>

\* all images processed or skipped: sort, layout, export
FinishBatch ==
    /\ pipeline.stage = "workers"
    /\ pipeline.done = 1..Len(pipeline.batch)
    /\ LET sorted == sortBySequence(pipeline.results)
           nodes  == layoutNodes(sorted)
       IN  pipeline' = [ pipeline EXCEPT !.sorted = sorted,
                                         !.nodes = nodes,
                                         !.exported = export(sorted, nodes),
                                         !.stage = "exported" ]
    /\ UNCHANGED << dataVars, viewVars, appVars, renderVars >>

\* the viewer, or a test, reads the export back
Reparse ==
    /\ pipeline.stage = "exported"
    /\ pipeline' = [ pipeline EXCEPT !.reparsed = reparse(pipeline.exported),
                                     !.stage = "reparsed" ]
    /\ UNCHANGED << dataVars, viewVars, appVars, renderVars >>

PipelineNext ==
    \/ \E i \in 1..(MaxBatch + 1) : WorkerCompletes(i)
    \/ FinishBatch
    \/ Reparse

PipelineSpec == PipelineInit /\ [][PipelineNext]_vars

(***************************************************************************)
(* Properties of the marker layout (LayoutSpec).                           *)
(***************************************************************************)
DrawnPoint(k) == [ x |-> drawn[k].x, y |-> drawn[k].y ]

\* C1: every marker the layout computes lies within
\* [padding, canvasWidth - padding] x [padding, canvasHeight - padding],
\* for every number of images.
C1_WithinPadding ==
    \A k \in 1..Len(drawn) :
        /\ padding <= drawn[k].x /\ drawn[k].x <= canvasWidth - padding
        /\ padding <= drawn[k].y /\ drawn[k].y <= canvasHeight - padding

\* C2: for two or more images the layout holds exactly one position per
\* image index and the (x, y) pairs are pairwise distinct.
C2_DistinctPositions ==
    Len(images) >= 2 =>
        /\ Len(drawn) = Len(images)
        /\ \A k \in 1..Len(drawn) : drawn[k].index = k - 1
        /\ Cardinality({ DrawnPoint(k) : k \in 1..Len(drawn) }) = Len(images)

C2_Witness ==
    /\ Len(images) = 118
    /\ Len(drawn) = 118
    /\ currentImageIndex = 110

\* C3 as stated: a single image is placed at the canvas centre.
C3_SingleAtCentre ==
    Len(images) = 1 =>
        /\ Len(drawn) = 1
        /\ drawn[1].x = canvasWidth \div 2
        /\ drawn[1].y = canvasHeight \div 2

\* C3: a single image is placed at the start of the path, the point
\* (padding, padding), not at the canvas centre.
C3_SingleAtPathStart ==
    Len(images) = 1 =>
        /\ Len(drawn) = 1
        /\ drawn[1].x = padding
        /\ drawn[1].y = padding

C3_Witness ==
    /\ Len(images) = 1
    /\ Len(drawn) = 1
    /\ hoveredIndex = 0

\* C4: within a row (index div 10) all markers share one y; x strictly
\* increases with the index in even rows and strictly decreases in odd rows.
C4_Serpentine ==
    \A i \in 1..Len(drawn) :
        \A j \in (i + 1)..Min2(Len(drawn), 10 * ((i - 1) \div 10) + 10) :
            /\ drawn[i].y = drawn[j].y
            /\ ((i - 1) \div 10) % 2 = 0 => drawn[i].x < drawn[j].x
            /\ ((i - 1) \div 10) % 2 = 1 => drawn[i].x > drawn[j].x

C4_Witness ==
    /\ Len(drawn) >= 20
    /\ currentImageIndex = 19
    /\ drawn[20].x < drawn[11].x

RowYs == { drawn[k].y : k \in 1..Len(drawn) }

InRow(y) == Cardinality({ k \in 1..Len(drawn) : drawn[k].y = y })

LastRowY == CHOOSE y \in RowYs : \A o \in RowYs : o <= y

\* C5: the markers occupy ceil(total / 10) rows, every row but the last
\* holding 10 markers and the last the remaining ones; 117 images give 12
\* rows with 7 markers in the last; row 0 runs left to right and row 1
\* right to left.
C5_RowOccupancy ==
    Len(drawn) >= 1 =>
        LET total == Len(drawn)
            rows  == Cardinality(RowYs)
        IN  /\ rows = (total + 9) \div 10
            /\ \A y \in RowYs \ { LastRowY } : InRow(y) = 10
            /\ InRow(LastRowY) = total - 10 * (rows - 1)
            /\ total = 117 => rows = 12 /\ InRow(LastRowY) = 7
            /\ \A k \in 1..(Min2(total, 10) - 1) :
                  drawn[k].x < drawn[k + 1].x /\ drawn[k].y = drawn[k + 1].y
            /\ \A k \in 11..(Min2(total, 20) - 1) :
                  drawn[k].x > drawn[k + 1].x /\ drawn[k].y = drawn[k + 1].y
            /\ total > 10 => drawn[1].y < drawn[11].y

C5_Witness ==
    /\ Len(drawn) = 117
    /\ Cardinality(RowYs) = 12
    /\ hoveredIndex = 110

\* C6: for every index the marker drawn, the marker the click handler tests
\* and the marker the hover handler tests are the same point, and a redraw
\* after a change of the current or the hovered image leaves every marker
\* where it was.
C6_SameLayoutEverywhere ==
    /\ [](\A k \in 1..Len(drawn) :
            /\ DrawnPoint(k) = clickMarker(k - 1)
            /\ DrawnPoint(k) = hoverMarker(k - 1))
    /\ [][drawn' = drawn]_vars

C6_Witness ==
    /\ Len(drawn) >= 20
    /\ currentImageIndex = 19
    /\ hoveredIndex = 10

\* C7: the marker of every image is drawn at the coordinate carried in the
\* image's record (its location), not at one recomputed from the index.
C7_DrawnAtRecordLocation ==
    \A k \in 1..Len(drawn) :
        /\ drawn[k].x = images[k].location.x
        /\ drawn[k].y = images[k].location.y

\* square of the distance between the pointer at (x, y) and the marker
\* drawn for position k
Distance2(x, y, k) ==
    (x - drawn[k].x) * (x - drawn[k].x) + (y - drawn[k].y) * (y - drawn[k].y)

\* C15 as stated: a click within 15 pixels (15 included) of the marker of
\* image i makes i the current image, a click farther than 15 pixels from
\* every marker leaves the current image unchanged.
C15_Within15Selects ==
    \A x \in PointerXs, y \in PointerYs :
        /\ \A k \in 1..Len(drawn) :
              Distance2(x, y, k) <= 15 * 15
                  => clickSelects(x, y, images, currentImageIndex) = k - 1
        /\ (\A k \in 1..Len(drawn) : Distance2(x, y, k) > 15 * 15)
              => clickSelects(x, y, images, currentImageIndex) = currentImageIndex

\* C15: a click at a distance strictly less than 15 pixels from the marker
\* of image i makes i the current image, a click 15 pixels or more from
\* every marker leaves the current image unchanged.
C15_StrictlyWithin15Selects ==
    \A x \in PointerXs, y \in PointerYs :
        /\ \A k \in 1..Len(drawn) :
              Distance2(x, y, k) < 15 * 15
                  => clickSelects(x, y, images, currentImageIndex) = k - 1
        /\ (\A k \in 1..Len(drawn) : Distance2(x, y, k) >= 15 * 15)
              => clickSelects(x, y, images, currentImageIndex) = currentImageIndex

C15_Witness ==
    /\ Len(images) = 20
    /\ currentImageIndex = 19
    /\ hoveredIndex = Null

\* square of the distance between two marker positions
MarkerDistance2(a, b) == (a.x - b.x) * (a.x - b.x) + (a.y - b.y) * (a.y - b.y)

\* C30: the markers of two different images are at least twice the hit
\* radius apart, so no point is nearer than the radius to both, and a
\* click calls onImageSelect for at most one index.
C30_AtMostOneHit ==
    /\ LET marker == [ index \in 0..(Len(images) - 1) |-> clickMarker(index) ]
       IN  \A i \in 0..(Len(images) - 1) :
             \A j \in (i + 1)..(Len(images) - 1) :
                 MarkerDistance2(marker[i], marker[j]) >= (2 * hitRadius) * (2 * hitRadius)
    /\ \A x \in PointerXs, y \in PointerYs : Cardinality(clickHits(x, y, images)) <= 1

C30_Witness ==
    /\ Len(images) = 120
    /\ currentImageIndex = 119
    /\ hoveredIndex = Null

(***************************************************************************)
(* Properties of the manifest and the image list (DataSpec).               *)
(***************************************************************************)
\* the capture-naming convention for a whole file name: IMG_, 8-digit date,
\* 6-digit time, 2-digit prefix, 3-digit sequence number, image extension
Conforms(f) ==
    \E e \in ImageExts :
        /\ Len(f) = 27 + Len(e)
        /\ \A k \in 1..4 : ToUpper(f[k]) = Img[k]
        /\ \A k \in 5..12 : IsDigit(f[k])
        /\ f[13] = "_"
        /\ \A k \in 14..19 : IsDigit(f[k])
        /\ f[20] = "_"
        /\ \A k \in 21..22 : IsDigit(f[k])
        /\ f[23] = "_"
        /\ \A k \in 24..26 : IsDigit(f[k])
        /\ f[27] = "."
        /\ \A k \in 1..Len(e) : ToUpper(f[27 + k]) = ToUpper(e[k])

InManifest(f) ==
    \E k \in 1..Len(manifest[1].images) : manifest[1].images[k].filename = f

\* C8: a file of the directory is in manifest.images if and only if its
\* name matches the capture-naming convention.
C8_ManifestIffConforms ==
    manifest # NoManifest => \A f \in dir : InManifest(f) <=> Conforms(f)

\* C9: in the image list the viewer traverses, sequence numbers strictly
\* increase with the list position, whatever files the directory holds.
C9_SequencesIncreasing ==
    \A k \in 1..(Len(imageList) - 1) : imageList[k].sequence < imageList[k + 1].sequence

\* C31: manifest.total is the number of entries of manifest.images, and the
\* id of each entry is its 1-based position in the list, whatever the
\* directory holds.
C31_ManifestConsistent ==
    manifest # NoManifest =>
        /\ manifest[1].total = Len(manifest[1].images)
        /\ \A k \in 1..Len(manifest[1].images) : manifest[1].images[k].id = k

\* C32: for each record of the image list its path is /VMAP/images/<filename>
\* and the URL the panorama viewer requests for it is that path, whatever
\* capture time the file name holds.
C32_RequestsRecordPath ==
    \A k \in 1..Len(imageList) :
        /\ imageList[k].path = PathPrefix \o imageList[k].filename
        /\ imgSrc(imageList[k]) = imageList[k].path
        /\ loadImage(imageList[k]).imagePath = imageList[k].path

ConnectionsOf(k, direction) ==
    { j \in 1..Len(graph[k].connections) : graph[k].connections[j].direction = direction }

FailingOutcomes == { "throws", "not-ok", "bad-json", "no-images", "bad-entry" }

\* C11 as stated: generateImageList never rejects; a well-formed manifest
\* gives one record per manifest image, in manifest order, with the same id,
\* filename, path and sequence; a fetch that throws, a response that is not
\* ok and every malformed manifest give the fallback list.
C11_MalformedFallsBack ==
    /\ listSource # "rejected"
    /\ fetchOutcome = "ok" =>
          /\ listSource = "manifest"
          /\ Len(imageList) = Len(manifest[1].images)
          /\ \A k \in 1..Len(imageList) :
                /\ imageList[k].id = manifest[1].images[k].id
                /\ imageList[k].filename = manifest[1].images[k].filename
                /\ imageList[k].path = manifest[1].images[k].path
                /\ imageList[k].sequence = manifest[1].images[k].sequence
    /\ fetchOutcome \in FetchOutcomes \ { "ok" } =>
          /\ listSource = "fallback"
          /\ Len(imageList) = Len(FallbackImages)

\* C11: generateImageList never rejects; a well-formed manifest gives one
\* record per manifest image, in manifest order, with the same id, filename,
\* path and sequence; a fetch that throws, a response that is not ok and a
\* manifest whose reading throws (not JSON, no images array, an entry
\* without metadata) give the fallback list; a manifest that parses but
\* whose entries lack the id is mapped as it is, the id undefined.
C11_ResolvesOrFallsBack ==
    /\ listSource # "rejected"
    /\ fetchOutcome = "ok" =>
          /\ listSource = "manifest"
          /\ Len(imageList) = Len(manifest[1].images)
          /\ \A k \in 1..Len(imageList) :
                /\ imageList[k].id = manifest[1].images[k].id
                /\ imageList[k].filename = manifest[1].images[k].filename
                /\ imageList[k].path = manifest[1].images[k].path
                /\ imageList[k].sequence = manifest[1].images[k].sequence
    /\ fetchOutcome \in FailingOutcomes =>
          /\ listSource = "fallback"
          /\ imageList = FallbackImages
    /\ fetchOutcome = "no-id" =>
          /\ listSource = "manifest"
          /\ Len(imageList) = Len(manifest[1].images)
          /\ \A k \in 1..Len(imageList) :
                /\ imageList[k].id = Undefined
                /\ imageList[k].filename = manifest[1].images[k].filename

C11_Witness ==
    /\ fetchOutcome = "ok"
    /\ listSource = "manifest"
    /\ Len(imageList) = 3
    /\ graph = << >>

\* C12: the fallback list holds exactly 117 records, the documented number
\* of panoramas, covering the sequence numbers 2 to 119.
C12_FallbackHas117 ==
    listSource = "fallback" =>
        /\ Len(imageList) = 117
        /\ imageList[1].sequence = 2
        /\ imageList[Len(imageList)].sequence = 119

(***************************************************************************)
(* Properties of the App's initialisation (AppSpec).                       *)
(***************************************************************************)
\* the text of the location-info element: Image {X} of {N}
Counter == [ X |-> currentImageIndex + 1, N |-> Len(images) ]

\* C13: once initialisation is complete (loading is false and the list of
\* generateImageList is there), the images of the App are the navigation
\* graph built from that list, non-empty whenever the list is, and the
\* counter shows the number of images of the list.
C13_ImagesAreGraphOfList ==
    (~loading /\ listSource # "none") =>
        /\ images = buildNavigationGraph(imageList)
        /\ Len(imageList) > 0 => Len(images) > 0
        /\ Counter.N = Len(imageList)

(***************************************************************************)
(* Properties of the navigation (NavSpec).                                 *)
(***************************************************************************)
\* C14: while the current index is below total - 1, pressing Next (the
\* button, which is then enabled, or ArrowRight) leaves the App at
\* index + 1; while the index is above 0, pressing Previous (the button or
\* ArrowLeft) leaves it at index - 1.
C14_NextPreviousByOne ==
    /\ currentImageIndex < Len(images) - 1 =>
          /\ handleNext(images, currentImageIndex) = currentImageIndex + 1
          /\ handleKeyPress("ArrowRight", images, currentImageIndex) = currentImageIndex + 1
          /\ ENABLED ClickNext
    /\ currentImageIndex > 0 =>
          /\ handlePrevious(images, currentImageIndex) = currentImageIndex - 1
          /\ handleKeyPress("ArrowLeft", images, currentImageIndex) = currentImageIndex - 1
          /\ ENABLED ClickPrevious

C14_Witness ==
    /\ Len(images) = 5
    /\ currentImageIndex = 4
    /\ ~showTimeline
    /\ ~showFloorPlan

\* C20: after any sequence of navigate, image-select, keyboard and
\* floor-plan events, with any arguments, currentImageIndex is an integer
\* in 0..max(images.length - 1, 0).
C20_IndexInRange ==
    /\ currentImageIndex \in Int
    /\ 0 <= currentImageIndex
    /\ currentImageIndex <= (IF Len(images) - 1 > 0 THEN Len(images) - 1 ELSE 0)

C20_Witness ==
    /\ Len(images) = 3
    /\ currentImageIndex = 2
    /\ showTimeline
    /\ showFloorPlan

(***************************************************************************)
(* Properties of the pipeline (PipelineSpec).                              *)
(***************************************************************************)
\* C16: the result category is the category with the maximum score, except
\* that when the top two scores differ by less than 0.05 the result is
\* unknown, the confidence being the top score in both cases; scores 0.42
\* and 0.40 give unknown with confidence 0.42.
C16_DecisionProcedure ==
    \A k \in 1..Len(pipeline.results) :
        LET r == pipeline.results[k]
            s == r.features
            ambiguous == \E c, d \in Categories :
                            /\ c # d
                            /\ \A e \in Categories : s[e] <= s[c]
                            /\ s[c] - s[d] < 5
        IN  /\ \E c \in Categories : r.confidence = s[c] /\ \A e \in Categories : s[e] <= s[c]
            /\ ambiguous => r.category = "unknown"
            /\ ~ambiguous => r.category \in Categories /\ s[r.category] = r.confidence
            /\ (s["classroom"] = 42 /\ s["doorway"] = 40 /\ \A e \in Categories : s[e] <= 42)
                  => r.category = "unknown" /\ r.confidence = 42

C16_Witness ==
    /\ Len(pipeline.results) = 3
    /\ pipeline.results[1].category = "unknown" /\ pipeline.results[1].confidence = 42
    /\ pipeline.results[2].category = "office" /\ pipeline.results[2].confidence = 50
    /\ pipeline.results[3].category = "hallway" /\ pipeline.results[3].confidence = 80

RECURSIVE TallySum(_, _)
TallySum(tally, cats) ==
    IF cats = {} THEN 0
    ELSE LET c == CHOOSE c \in cats : TRUE
         IN  tally[c] + TallySum(tally, cats \ { c })

\* number of images of the batch that cannot be decoded
Corrupt == Cardinality({ k \in 1..Len(pipeline.batch) : pipeline.batch[k].kind = "corrupt" })

\* C17: a batch of N images of which K are corrupt never aborts, and once
\* it has finished it reports N - K processed and K skipped, the
\* per-category tallies summing to N - K.
C17_FaultIsolation ==
    /\ pipeline.stage # "aborted"
    /\ pipeline.stage \in { "exported", "reparsed" } =>
          /\ pipeline.processed = Len(pipeline.batch) - Corrupt
          /\ pipeline.skipped = Corrupt
          /\ TallySum(pipeline.tally, DOMAIN pipeline.tally) = Len(pipeline.batch) - Corrupt

C17_Witness ==
    /\ pipeline.stage = "exported"
    /\ Len(pipeline.batch) = 3
    /\ pipeline.skipped = 2
    /\ pipeline.processed = 1

\* C18: whatever order the workers completed in, the results handed to the
\* exporter are the results of the workers in strictly increasing order of
\* sequence number.
C18_ExportedInSequenceOrder ==
    pipeline.stage \in { "exported", "reparsed" } =>
        /\ \A k \in 1..(Len(pipeline.sorted) - 1) :
              pipeline.sorted[k].sequence < pipeline.sorted[k + 1].sequence
        /\ \A k \in 1..(Len(pipeline.exported.nodes) - 1) :
              ParseInt(pipeline.exported.nodes[k].sequence)
                  < ParseInt(pipeline.exported.nodes[k + 1].sequence)
        /\ { pipeline.sorted[k] : k \in 1..Len(pipeline.sorted) }
              = { pipeline.results[k] : k \in 1..Len(pipeline.results) }
        /\ Len(pipeline.sorted) = Len(pipeline.results)

C18_Witness ==
    /\ pipeline.stage = "exported"
    /\ Len(pipeline.results) = 3
    /\ pipeline.results[1].sequence = 4
    /\ pipeline.results[2].sequence = 2
    /\ pipeline.results[3].sequence = 3

\* C19: the node set read back from the export has exactly the ids of the
\* layout nodes that were exported, and the node of every id has the x and
\* y of the layout node and the category and confidence of the
\* classification of that image.
C19_RoundTrip ==
    pipeline.stage = "reparsed" =>
        /\ { n.id : n \in pipeline.reparsed }
              = { pipeline.nodes[k].imageId : k \in 1..Len(pipeline.nodes) }
        /\ Cardinality(pipeline.reparsed) = Len(pipeline.nodes)
        /\ \A k \in 1..Len(pipeline.nodes) :
              \E n \in pipeline.reparsed :
                /\ n.id = pipeline.nodes[k].imageId
                /\ n.x = pipeline.nodes[k].x
                /\ n.y = pipeline.nodes[k].y
                /\ \E j \in 1..Len(pipeline.results) :
                      /\ pipeline.results[j].sequence = n.id
                      /\ n.category = pipeline.results[j].category
                      /\ n.confidence = pipeline.results[j].confidence

C19_Witness ==
    /\ pipeline.stage = "reparsed"
    /\ Cardinality(pipeline.reparsed) = 3
    /\ \E n \in pipeline.reparsed : n.category = "unknown" /\ n.confidence = 42

\* C21: for every connection shown on the current image, handleNavigate
\* with the connection's direction makes current the image whose id is the
\* connection's targetId.
C21_HotspotLeadsToTarget ==
    HasCurrentImage =>
        LET c == images[currentImageIndex + 1].connections
        IN  \A j \in 1..Len(c) :
              LET next == handleNavigate(c[j].direction, images, currentImageIndex)
              IN  /\ next >= 0 /\ next < Len(images)
                  /\ images[next + 1].id = c[j].targetId
                  /\ ENABLED OnNavigate(c[j].direction)

C21_Witness ==
    /\ Len(images) = 6
    /\ currentImageIndex = 3
    /\ Len(images[4].connections) = 2
    /\ ~showTimeline
    /\ ~showFloorPlan

\* C25: handleNavigate('forward') at the last index, handleNavigate('back')
\* at index 0, handleNavigate with another direction and handleImageSelect
\* with an index below 0 or not below images.length leave currentImageIndex,
\* the image list and showFloorPlan as they are.
C25_RejectedLeavesState ==
    /\ [](/\ currentImageIndex >= Len(images) - 1 =>
               /\ handleNavigate("forward", images, currentImageIndex) = currentImageIndex
               /\ handleNext(images, currentImageIndex) = currentImageIndex
          /\ currentImageIndex <= 0 =>
               /\ handleNavigate("back", images, currentImageIndex) = currentImageIndex
               /\ handlePrevious(images, currentImageIndex) = currentImageIndex
          /\ handleNavigate("up", images, currentImageIndex) = currentImageIndex
          /\ \A index \in ((0 - 2)..(0 - 1)) \cup (Len(images)..(MaxNav + 1)) :
               handleImageSelect(index, images, currentImageIndex) = currentImageIndex)
    /\ [][ /\ \A direction \in Directions :
               (/\ OnNavigate(direction)
                /\ \/ direction = "forward" /\ currentImageIndex >= Len(images) - 1
                   \/ direction = "back" /\ currentImageIndex <= 0
                   \/ direction = "up")
               => UNCHANGED << currentImageIndex, images, showFloorPlan >>
           /\ \A index \in ((0 - 2)..(0 - 1)) \cup (Len(images)..(MaxNav + 1)) :
               OnImageSelect(index) => UNCHANGED << currentImageIndex, images, showFloorPlan >> ]_vars

C25_Witness ==
    /\ Len(images) = 4
    /\ currentImageIndex = 3
    /\ showFloorPlan
    /\ ~showTimeline

\* C27: the Previous button is disabled exactly when a Previous press leaves
\* the index unchanged, the Next button exactly when a Next press does,
\* with zero images too.
C27_DisabledIffNoEffect ==
    /\ previousDisabled(currentImageIndex)
          <=> handlePrevious(images, currentImageIndex) = currentImageIndex
    /\ nextDisabled(currentImageIndex, Len(images))
          <=> handleNext(images, currentImageIndex) = currentImageIndex

\* target indices of the thumbnails of the timeline
ThumbnailTargets ==
    { thumbnailImageIndex(k, Len(images)) : k \in 0..(Min2(Len(images), 20) - 1) }

\* C29: for one image or more the min(totalImages, 20) thumbnails have
\* pairwise distinct target indices, all within 0..totalImages - 1.
C29_ThumbnailsDistinct ==
    Len(images) >= 1 =>
        /\ Cardinality(ThumbnailTargets) = Min2(Len(images), 20)
        /\ \A t \in ThumbnailTargets : 0 <= t /\ t <= Len(images) - 1

Progress == progressPercentage(currentImageIndex, Len(images))

\* C28: whenever the viewer is rendered, the progress percentage is a
\* finite value in (0, 100], and 100 exactly when the last image is current.
C28_ProgressInRange ==
    ~loading =>
        /\ Progress.kind = "finite"
        /\ 0 < Progress.num
        /\ Progress.num <= 100 * Progress.den
        /\ Progress.num = 100 * Progress.den <=> currentImageIndex = Len(images) - 1

(***************************************************************************)
(* Properties of the panorama viewer (ViewerSpec).                         *)
(***************************************************************************)
\* C22: the hotspots and the info badges are in the document only when the
\* load event of the image that is shown has fired, the flags having been
\* reset when the image changed.
C22_NothingBeforeOwnLoad ==
    (Shown.hotspots \/ Shown.infoBadges) =>
        /\ viewer.imageLoaded
        /\ viewer.eventFor = currentImageIndex

\* C23: once the viewer has settled on an image, an error display is that
\* of the current image only, so after a failure the navigation to another
\* image clears it and the new image is requested; a load event leaves
\* imageLoaded true and imageError false.
C23_ErrorNotSticky ==
    /\ [](viewer.phase = "settled" =>
            /\ viewer.imageError => viewer.lastFailed = currentImageIndex /\ viewer.eventFor = currentImageIndex
            /\ (HasCurrentImage /\ viewer.eventFor = Null) =>
                  /\ ~Shown.errorPanel
                  /\ Shown.img
                  /\ viewer.requested)
    /\ [][ImageLoads => viewer'.imageLoaded /\ ~viewer'.imageError]_vars

C23_Witness ==
    /\ viewer.lastFailed = 0
    /\ currentImageIndex = 1
    /\ viewer.imageLoaded
    /\ ~viewer.imageError
    /\ viewer.phase = "settled"

\* C24: imageLoaded and imageError are never both true, and the loading
\* overlay is in the document exactly when both are false and an image is
\* selected.
C24_FlagsExclusive ==
    /\ ~(viewer.imageLoaded /\ viewer.imageError)
    /\ Shown.loadingOverlay <=> (HasCurrentImage /\ ~viewer.imageLoaded /\ ~viewer.imageError)

C24_Witness ==
    /\ viewer.imageError
    /\ viewer.lastFailed = 2
    /\ currentImageIndex = 2
    /\ ~Shown.loadingOverlay
    /\ Len(images) = 3

====
